---- MODULE Spec2Model ----
(***************************************************************************)
(* Model of the AGNI repository:                                           *)
(*   - agni_effective_step_sizes.py : compute_variance_online and          *)
(*     run_experiment (gradient snapshots, noise injection, step sizes)    *)
(*   - run_glue_baselines2.py       : compute_with_retry and the training  *)
(*     loop of main                                                        *)
(*                                                                         *)
(* Numbers are exact rationals <<num, den>> in lowest terms with den > 0.  *)
(* The IEEE specials are kept: <<0,0>> is NaN, <<1,0>> is +inf and         *)
(* <<-1,0>> is -inf, with the IEEE rules for them in every operation.      *)
(* Rounding of finite float32 results is not modelled.                     *)
(***************************************************************************)
EXTENDS Integers, Sequences, FiniteSets, TLC

VARIABLES
    \* ---- compute_variance_online (one call, stepped through its loop) ----
    gradients,      \* the argument: a sequence of 1-D tensors
    n,              \* local n
    mean,           \* local mean (<<>> models None)
    M2,             \* local M2   (<<>> models None)
    v_i,            \* number of loop iterations executed
    v_pc,           \* "idle" | "loop" | "returned" | "raised"
    variance,       \* the returned tensor (<<>> before the return)
    \* ---- run_experiment ----
    use_noise_injection, num_epochs, gradient_accumulation_steps, eta,
    set_to_none,    \* optimizer.zero_grad default of the installed torch
    epoch,          \* loop variable of line 45
    pc,             \* position inside run_experiment
    heap,           \* heap[p] : the gradient tensors ever allocated for p
    grad,           \* grad[p] : 0 (None) or an index into heap[p]
    gradient_dict,  \* gradient_dict[p] : sequence of indices into heap[p]
    effective_step_sizes,
    params_nan,     \* the model's weights hold a non-finite value
    opt_steps,      \* number of optimizer.step() calls
    last_n,         \* per parameter, n of the latest variance computation
    pre_grad,       \* per parameter, value of p.grad when injection began
    ref_grad,       \* per parameter, sum of the micro-batch gradients
                    \* back-propagated since the last zero_grad (history)
    ref_steps,      \* step sizes computed from ref_grad (history)
    \* ---- compute_with_retry ----
    max_retries, initial_wait, script, attempt, r_pc, calls, waits, outcome,
    \* ---- training loop of main ----
    len_dl, m_gas, num_train_epochs, max_train_steps, resume, starting_epoch,
    resume_step, m_epoch, step, completed_steps, sched_steps, m_opt_steps,
    since_step, zeroed, last_window, last_was_final, m_pc,
    epoch_steps,    \* optimizer steps taken since the epoch began
    \* ---- EnsembleModel and the two-member combiners ----
    e_mode,         \* "ensemble" (EnsembleModel) | "pair" (a two-member combiner)
    num_labels,     \* config.num_labels
    num_models,     \* len(self.members)
    problem_type,   \* config.problem_type ("None" when unset)
    weights,        \* EnsembleModel.weights
    out,            \* what the latest EnsembleModel.forward was given and did
    c_out,          \* what the latest combiner call was given and returned
    \* ---- n_cosine_similarity ----
    tensor_sizes,   \* tensor.size(0) of every tensor of tensor_list
    cs_i, cs_j,     \* the loop variables i and j (members counted from 1)
    similarities,   \* the list of blocks
    result_tensor,  \* the value returned
    cs_pc,          \* "loop" | "returned" | "raised"
    \* ---- check_and_fix_json_files ----
    fix,            \* the fix argument
    fs,             \* the directory: file name -> content (Absent if no such file)
    fs0,            \* the directory as it was when the call began
    files,          \* the listing os.walk produced
    file_i,         \* position in files of the file visited next
    j_pc            \* "walk" | "done"

varVars   == <<gradients, n, mean, M2, v_i, v_pc, variance>>
expVars   == <<use_noise_injection, num_epochs, gradient_accumulation_steps,
               eta, set_to_none, epoch, pc, heap, grad, gradient_dict,
               effective_step_sizes, params_nan, opt_steps, last_n, pre_grad,
               ref_grad, ref_steps>>
retryVars == <<max_retries, initial_wait, script, attempt, r_pc, calls, waits,
               outcome>>
mainVars  == <<len_dl, m_gas, num_train_epochs, max_train_steps, resume,
               starting_epoch, resume_step, m_epoch, step, completed_steps,
               sched_steps, m_opt_steps, since_step, zeroed, last_window,
               last_was_final, m_pc, epoch_steps>>
ensVars   == <<e_mode, num_labels, num_models, problem_type, weights, out, c_out>>
cosVars   == <<tensor_sizes, cs_i, cs_j, similarities, result_tensor, cs_pc>>
jsonVars  == <<fix, fs, fs0, files, file_i, j_pc>>
vars      == <<varVars, expVars, retryVars, mainVars, ensVars, cosVars, jsonVars>>

---------------------------------------------------------------------------
\* Bounds of the model
MaxSamples == 3
MaxDim == 2
MaxEpochs == 4
MaxGas == 4
NumParams == 1
MaxRetries == 3
MaxWait == 2
MaxLen == 5
MaxTrainEpochs == 2
MaxTrainSteps == 4
MaxBatch == 2
MaxLabels == 3
MaxModels == 3
MaxMembers == 4
MaxRows == 3
MaxChars == 4

---------------------------------------------------------------------------
\* Arithmetic of the float values

Abs(i) == IF i < 0 THEN -i ELSE i

Sgn(i) == IF i < 0 THEN -1 ELSE IF i > 0 THEN 1 ELSE 0

RECURSIVE GCD(_, _)
GCD(a, b) == IF b = 0 THEN a ELSE GCD(b, a % b)

NaN == <<0, 0>>

Inf(s) == <<s, 0>>

Q(num, den) ==
    LET g == GCD(Abs(num), den)
    IN  IF num = 0 THEN <<0, 1>> ELSE <<num \div g, den \div g>>

Int2Q(i) == <<i, 1>>

IsNaN(x) == x = NaN

IsFinite(x) == x[2] > 0

IsInf(x) == x[2] = 0 /\ x[1] # 0

RNeg(x) == <<-x[1], x[2]>>

RAdd(x, y) ==
    IF IsNaN(x) \/ IsNaN(y) THEN NaN
    ELSE IF IsInf(x) /\ IsInf(y) THEN (IF x = y THEN x ELSE NaN)
    ELSE IF IsInf(x) THEN x
    ELSE IF IsInf(y) THEN y
    ELSE Q(x[1] * y[2] + y[1] * x[2], x[2] * y[2])

RSub(x, y) == RAdd(x, RNeg(y))

RMul(x, y) ==
    IF IsNaN(x) \/ IsNaN(y) THEN NaN
    ELSE IF IsInf(x) \/ IsInf(y)
         THEN (IF x[1] = 0 \/ y[1] = 0 THEN NaN ELSE Inf(Sgn(x[1]) * Sgn(y[1])))
    ELSE Q(x[1] * y[1], x[2] * y[2])

\* division by a positive Python int
RDivInt(x, k) == IF IsFinite(x) THEN Q(x[1], x[2] * k) ELSE x

\* float division
RDiv(x, y) ==
    IF IsNaN(x) \/ IsNaN(y) THEN NaN
    ELSE IF IsInf(y) THEN (IF IsInf(x) THEN NaN ELSE Int2Q(0))
    ELSE IF y[1] = 0 THEN (IF x[1] = 0 THEN NaN ELSE Inf(Sgn(x[1])))
    ELSE IF IsInf(x) THEN Inf(Sgn(x[1]) * Sgn(y[1]))
    ELSE Q(x[1] * y[2] * Sgn(y[1]), x[2] * Abs(y[1]))

\* x < y; every comparison with NaN is false
RLess(x, y) ==
    IF IsNaN(x) \/ IsNaN(y) THEN FALSE
    ELSE IF IsInf(x) THEN x[1] < 0 /\ y # x
    ELSE IF IsInf(y) THEN y[1] > 0
    ELSE x[1] * y[2] < y[1] * x[2]

\* x >= 0 as a float comparison (false for NaN)
RNonNeg(x) == ~IsNaN(x) /\ x[1] >= 0

ISqrtCeil(k) == CHOOSE r \in 0..k : r * r >= k /\ (r = 0 \/ (r - 1) * (r - 1) < k)

\* torch.sqrt: NaN for a negative argument, no exception is raised.
\* A finite positive result is rounded up to the grid of the argument's
\* denominator when it is not a perfect square.
RSqrt(x) ==
    IF IsNaN(x) \/ x[1] < 0 THEN NaN
    ELSE IF IsInf(x) THEN x
    ELSE Q(ISqrtCeil(x[1] * x[2]), x[2])

---------------------------------------------------------------------------
\* 1-D tensors: sequences of float values

TZeros(d) == [k \in 1..d |-> Int2Q(0)]

TAdd(a, b) == [k \in 1..Len(a) |-> RAdd(a[k], b[k])]

TSub(a, b) == [k \in 1..Len(a) |-> RSub(a[k], b[k])]

TMul(a, b) == [k \in 1..Len(a) |-> RMul(a[k], b[k])]

TDivInt(a, k) == [j \in 1..Len(a) |-> RDivInt(a[j], k)]

TScale(a, s) == [k \in 1..Len(a) |-> RMul(a[k], s)]

RECURSIVE RSum(_)
RSum(a) == IF a = <<>> THEN Int2Q(0) ELSE RAdd(a[1], RSum(Tail(a)))

\* torch.norm / Tensor.norm: the L2 norm
TNorm(a) == RSqrt(RSum(TMul(a, a)))

TFinite(a) == \A k \in 1..Len(a) : IsFinite(a[k])

---------------------------------------------------------------------------
\* compute_variance_online (agni_effective_step_sizes.py, lines 17-35)

\* gradient samples fed to one call
SampleVals == {-1, 2}

NoState == [n |-> 0, mean |-> <<>>, M2 |-> <<>>]

\* a slip in the update of M2: the deviation from the old mean is squared
WelfordStep_SquaredDelta(st, g) ==
    LET mean0 == IF st.mean = <<>> THEN TZeros(Len(g)) ELSE st.mean
        M20   == IF st.mean = <<>> THEN TZeros(Len(g)) ELSE st.M2
        cnt   == st.n + 1
        delta == TSub(g, mean0)
        mean1 == TAdd(mean0, TDivInt(delta, cnt))
    IN  [n |-> cnt, mean |-> mean1, M2 |-> TAdd(M20, TMul(delta, delta))]

\* a slip in the update of M2: the product is subtracted
WelfordStep_Minus(st, g) ==
    LET mean0  == IF st.mean = <<>> THEN TZeros(Len(g)) ELSE st.mean
        M20    == IF st.mean = <<>> THEN TZeros(Len(g)) ELSE st.M2
        cnt    == st.n + 1
        delta  == TSub(g, mean0)
        mean1  == TAdd(mean0, TDivInt(delta, cnt))
        delta2 == TSub(g, mean1)
    IN  [n |-> cnt, mean |-> mean1, M2 |-> TSub(M20, TMul(delta, delta2))]

\* one iteration of the loop of lines 22-32
WelfordStep(st, g) ==
    LET mean0  == IF st.mean = <<>> THEN TZeros(Len(g)) ELSE st.mean
        M20    == IF st.mean = <<>> THEN TZeros(Len(g)) ELSE st.M2
        cnt    == st.n + 1
        delta  == TSub(g, mean0)
        mean1  == TAdd(mean0, TDivInt(delta, cnt))
        delta2 == TSub(g, mean1)
    IN  [n |-> cnt, mean |-> mean1, M2 |-> TAdd(M20, TMul(delta, delta2))]

\* a slip in line 34: the other accumulator is returned for n <= 1
Finalize_Mean(st) == IF st.n > 1 THEN TDivInt(st.M2, st.n - 1) ELSE st.mean

\* line 34; <<>> (None) when no sample was seen
Finalize(st) == IF st.n > 1 THEN TDivInt(st.M2, st.n - 1) ELSE st.M2

RECURSIVE WelfordFold(_, _)
WelfordFold(st, gs) ==
    IF gs = <<>> THEN st ELSE WelfordFold(WelfordStep(st, Head(gs)), Tail(gs))

\* the whole function; raised models the TypeError of line 35 on None
compute_variance_online(gs) ==
    LET st == WelfordFold(NoState, gs)
    IN  [raised |-> st.M2 = <<>>, value |-> Finalize(st), n |-> st.n]

VarIdle ==
    /\ gradients = <<>> /\ n = 0 /\ mean = <<>> /\ M2 = <<>>
    /\ v_i = 0 /\ v_pc = "idle" /\ variance = <<>>

VarInit ==
    /\ \E len \in 0..MaxSamples, d \in 1..MaxDim :
          gradients \in [1..len -> [1..d -> {Int2Q(v) : v \in SampleVals}]]
    /\ n = 0 /\ mean = <<>> /\ M2 = <<>>
    /\ v_i = 0 /\ v_pc = "loop" /\ variance = <<>>

\* lines 22-32, one sample
VarLoop ==
    /\ v_pc = "loop" /\ v_i < Len(gradients)
    /\ LET st == WelfordStep([n |-> n, mean |-> mean, M2 |-> M2], gradients[v_i + 1])
       IN  n' = st.n /\ mean' = st.mean /\ M2' = st.M2
    /\ v_i' = v_i + 1
    /\ UNCHANGED <<gradients, v_pc, variance>>
    /\ UNCHANGED <<expVars, retryVars, mainVars, ensVars, cosVars, jsonVars>>

\* lines 34-35
VarReturn ==
    /\ v_pc = "loop" /\ v_i = Len(gradients)
    /\ IF M2 = <<>>
       THEN v_pc' = "raised" /\ variance' = variance
       ELSE v_pc' = "returned"
            /\ variance' = Finalize([n |-> n, mean |-> mean, M2 |-> M2])
    /\ UNCHANGED <<gradients, n, mean, M2, v_i>>
    /\ UNCHANGED <<expVars, retryVars, mainVars, ensVars, cosVars, jsonVars>>

---------------------------------------------------------------------------
\* compute_with_retry (run_glue_baselines2.py, lines 482-494)

\* The module never imports time (lines 16-52, 232-233, 496): the name
\* time of line 490 is unbound and evaluating it raises NameError.
TimeImported == FALSE

\* what one call of metric.compute does
Outcomes == {"ok", "transient", "value_error", "other_error"}

\* random.uniform(0, 1), in halves
Jitters == {<<0, 1>>, <<1, 2>>}

RECURSIVE Pow2(_)
Pow2(k) == IF k = 0 THEN 1 ELSE 2 * Pow2(k - 1)

\* line 488 without the jitter
BaseWait(w, a) == w * Pow2(a)

RetryIdle ==
    /\ max_retries = 0 /\ initial_wait = 0 /\ script = <<>> /\ attempt = 0
    /\ r_pc = "idle" /\ calls = 0 /\ waits = <<>> /\ outcome = "none"

RetryInit ==
    /\ max_retries \in 0..MaxRetries
    /\ initial_wait \in 1..MaxWait
    /\ script \in [1..max_retries -> Outcomes]
    /\ attempt = 0 /\ r_pc = "loop" /\ calls = 0 /\ waits = <<>>
    /\ outcome = "none"

\* line 486: the except clause catches ValueError only
Caught(o) == o \in {"transient", "value_error"}

\* a slip in line 487: every ValueError is taken for the transient one
IsTransient_AnyValueError(o) == o \in {"transient", "value_error"}

\* line 487: the test of the message
IsTransient(o) == o = "transient"

\* lines 483-487 and 491-492: one pass of the try statement
RetryCall ==
    /\ r_pc = "loop" /\ attempt < max_retries
    /\ calls' = calls + 1
    /\ LET o == script[attempt + 1]
       IN  CASE o = "ok" -> r_pc' = "returned" /\ outcome' = "result"
             [] o # "ok" /\ Caught(o) /\ IsTransient(o) ->
                    r_pc' = "handler" /\ outcome' = outcome
             [] o # "ok" /\ Caught(o) /\ ~IsTransient(o) ->
                    r_pc' = "raised" /\ outcome' = "ValueError"
             [] o # "ok" /\ ~Caught(o) ->
                    r_pc' = "raised" /\ outcome' = "OtherError"
    /\ UNCHANGED <<max_retries, initial_wait, script, attempt, waits>>
    /\ UNCHANGED <<varVars, expVars, mainVars, ensVars, cosVars, jsonVars>>

\* lines 488-490: the branch of the transient error
RetryHandler ==
    /\ r_pc = "handler"
    /\ \E jitter \in Jitters :
          LET wait_time == RAdd(Int2Q(BaseWait(initial_wait, attempt)), jitter)
          IN  IF TimeImported
              THEN /\ waits' = Append(waits, wait_time)
                   /\ attempt' = attempt + 1
                   /\ r_pc' = "loop"
                   /\ outcome' = outcome
              ELSE /\ r_pc' = "raised"
                   /\ outcome' = "NameError"
                   /\ UNCHANGED <<waits, attempt>>
    /\ UNCHANGED <<max_retries, initial_wait, script, calls>>
    /\ UNCHANGED <<varVars, expVars, mainVars, ensVars, cosVars, jsonVars>>

\* line 494
RetryExhausted ==
    /\ r_pc = "loop" /\ attempt = max_retries
    /\ r_pc' = "raised" /\ outcome' = "Exhausted"
    /\ UNCHANGED <<max_retries, initial_wait, script, attempt, calls, waits>>
    /\ UNCHANGED <<varVars, expVars, mainVars, ensVars, cosVars, jsonVars>>

---------------------------------------------------------------------------
\* The training loop of main (run_glue_baselines2.py, lines 753-777, 806-958)

\* math.ceil(a / b) for positive b
CeilDiv(a, b) == (a + b - 1) \div b

\* lines 754 and 773
NumUpdateStepsPerEpoch(l, g) == CeilDiv(l, g)

\* lines 755-757 and 774-775; 0 models args.max_train_steps = None
MaxTrainStepsOf(arg_steps, arg_epochs, l, g) ==
    IF arg_steps = 0 THEN arg_epochs * NumUpdateStepsPerEpoch(l, g) ELSE arg_steps

\* line 777
NumTrainEpochsOf(steps, l, g) == CeilDiv(steps, NumUpdateStepsPerEpoch(l, g))

\* lines 846-850: the number of batches the epoch's dataloader yields
ActiveLen ==
    IF resume # "none" /\ m_epoch = starting_epoch /\ resume_step # -1
    THEN len_dl - resume_step
    ELSE len_dl

MainIdle ==
    /\ len_dl = 0 /\ m_gas = 0 /\ num_train_epochs = 0 /\ max_train_steps = 0
    /\ resume = "none" /\ starting_epoch = 0 /\ resume_step = -1
    /\ m_epoch = 0 /\ step = 0 /\ completed_steps = 0 /\ sched_steps = 0
    /\ m_opt_steps = 0 /\ since_step = 0 /\ zeroed = TRUE /\ last_window = 0
    /\ last_was_final = FALSE /\ m_pc = "idle" /\ epoch_steps = 0

\* line 895 for a dataloader of l batches and gradient_accumulation_steps g
StepConditionOf(s, l, g) == s % g = 0 \/ s = l - 1

\* line 895
StepCondition(s) == StepConditionOf(s, len_dl, m_gas)

\* optimizer steps of one uninterrupted epoch that starts with c completed
\* steps: one per batch that passes line 895, until line 914 breaks
StepsInEpoch(c, l, g, mx) ==
    LET all == Cardinality({s \in 0..(l - 1) : StepConditionOf(s, l, g)})
        left == IF mx - c > 1 THEN mx - c ELSE 1
    IN  IF all < left THEN all ELSE left

RECURSIVE SavedSteps(_, _, _, _)
\* optimizer (and scheduler) steps a run from scratch has taken at the end
\* of its first e epochs
SavedSteps(e, l, g, mx) ==
    IF e = 0 THEN 0
    ELSE LET c == SavedSteps(e - 1, l, g, mx)
         IN  c + StepsInEpoch(c, l, g, mx)

\* the state when the loop of line 840 is entered. accelerator.load_state
\* (line 822) restores the optimizer and the scheduler with the counts of
\* the run that wrote the checkpoint: epoch_k is written at the end of epoch
\* k (lines 954-958), step_k when completed_steps is k (lines 907-912).
MainInit ==
    /\ len_dl \in 1..MaxLen
    /\ m_gas \in 1..MaxGas
    /\ \E arg_epochs \in 1..MaxTrainEpochs, arg_steps \in 0..MaxTrainSteps :
          /\ max_train_steps = MaxTrainStepsOf(arg_steps, arg_epochs, len_dl, m_gas)
          /\ num_train_epochs = NumTrainEpochsOf(max_train_steps, len_dl, m_gas)
    /\ \/ /\ resume = "none"                                  \* lines 806-807
          /\ starting_epoch = 0 /\ resume_step = -1 /\ completed_steps = 0
          /\ sched_steps = 0
       \/ /\ resume = "epoch"                                 \* lines 826-829
          /\ \E k \in 0..(num_train_epochs - 1) :
                /\ starting_epoch = k + 1
                /\ completed_steps = (k + 1) * NumUpdateStepsPerEpoch(len_dl, m_gas)
                /\ sched_steps = SavedSteps(k + 1, len_dl, m_gas, max_train_steps)
          /\ resume_step = -1
       \/ /\ resume = "step"                                  \* lines 830-835
          /\ \E k \in 1..max_train_steps :
                /\ starting_epoch = (k * m_gas) \div len_dl
                /\ completed_steps = (k * m_gas) \div m_gas
                /\ resume_step = (k * m_gas) - starting_epoch * len_dl
                /\ sched_steps = k
    /\ m_epoch = starting_epoch /\ step = 0
    /\ m_opt_steps = sched_steps
    /\ since_step = 0 /\ zeroed = TRUE /\ last_window = 0
    /\ last_was_final = FALSE /\ m_pc = "epoch" /\ epoch_steps = 0

\* line 840 and lines 842-851: enter the next epoch or leave the loop
MainEpoch ==
    /\ m_pc = "epoch"
    /\ IF m_epoch < num_train_epochs
       THEN m_pc' = (IF ActiveLen > 0 THEN "batch" ELSE "eval")
       ELSE m_pc' = "done"
    /\ step' = 0
    /\ UNCHANGED <<len_dl, m_gas, num_train_epochs, max_train_steps, resume,
                   starting_epoch, resume_step, m_epoch, completed_steps,
                   sched_steps, m_opt_steps, since_step, zeroed, last_window,
                   last_was_final>>
    /\ epoch_steps' = 0
    /\ UNCHANGED <<varVars, expVars, retryVars, ensVars, cosVars, jsonVars>>

\* lines 853-895: forward, loss, backward and the test of line 895
MainBackward ==
    /\ m_pc = "batch"
    /\ since_step' = since_step + 1
    /\ zeroed' = FALSE
    /\ m_pc' = (IF StepCondition(step) THEN "optimizer" ELSE "check")
    /\ UNCHANGED <<len_dl, m_gas, num_train_epochs, max_train_steps, resume,
                   starting_epoch, resume_step, m_epoch, step, completed_steps,
                   sched_steps, m_opt_steps, last_window, last_was_final>>
    /\ UNCHANGED epoch_steps
    /\ UNCHANGED <<varVars, expVars, retryVars, ensVars, cosVars, jsonVars>>

\* line 898
MainOptimizerStep ==
    /\ m_pc = "optimizer"
    /\ m_opt_steps' = m_opt_steps + 1
    /\ last_window' = since_step
    /\ last_was_final' = (step = ActiveLen - 1)
    /\ since_step' = 0
    /\ m_pc' = "scheduler"
    /\ UNCHANGED <<len_dl, m_gas, num_train_epochs, max_train_steps, resume,
                   starting_epoch, resume_step, m_epoch, step, completed_steps,
                   sched_steps, zeroed>>
    /\ epoch_steps' = epoch_steps + 1
    /\ UNCHANGED <<varVars, expVars, retryVars, ensVars, cosVars, jsonVars>>

\* line 900
MainSchedulerStep ==
    /\ m_pc = "scheduler"
    /\ sched_steps' = sched_steps + 1
    /\ m_pc' = "zero_grad"
    /\ UNCHANGED <<len_dl, m_gas, num_train_epochs, max_train_steps, resume,
                   starting_epoch, resume_step, m_epoch, step, completed_steps,
                   m_opt_steps, since_step, zeroed, last_window, last_was_final>>
    /\ UNCHANGED epoch_steps
    /\ UNCHANGED <<varVars, expVars, retryVars, ensVars, cosVars, jsonVars>>

\* lines 902-905
MainZeroGrad ==
    /\ m_pc = "zero_grad"
    /\ zeroed' = TRUE
    /\ completed_steps' = completed_steps + 1
    /\ m_pc' = "check"
    /\ UNCHANGED <<len_dl, m_gas, num_train_epochs, max_train_steps, resume,
                   starting_epoch, resume_step, m_epoch, step, sched_steps,
                   m_opt_steps, since_step, last_window, last_was_final>>
    /\ UNCHANGED epoch_steps
    /\ UNCHANGED <<varVars, expVars, retryVars, ensVars, cosVars, jsonVars>>

\* lines 907-915 and the advance of the loop of line 851
MainCheck ==
    /\ m_pc = "check"
    /\ IF completed_steps >= max_train_steps
       THEN m_pc' = "eval" /\ step' = step
       ELSE /\ step' = step + 1
            /\ m_pc' = (IF step + 1 < ActiveLen THEN "batch" ELSE "eval")
    /\ UNCHANGED <<len_dl, m_gas, num_train_epochs, max_train_steps, resume,
                   starting_epoch, resume_step, m_epoch, completed_steps,
                   sched_steps, m_opt_steps, since_step, zeroed, last_window,
                   last_was_final>>
    /\ UNCHANGED epoch_steps
    /\ UNCHANGED <<varVars, expVars, retryVars, ensVars, cosVars, jsonVars>>

\* lines 917-958: evaluation; compute_with_retry returns or raises
MainEval ==
    /\ m_pc = "eval"
    /\ \E metric_ok \in BOOLEAN :
          IF metric_ok
          THEN m_epoch' = m_epoch + 1 /\ m_pc' = "epoch"
          ELSE m_epoch' = m_epoch /\ m_pc' = "raised"
    /\ UNCHANGED <<len_dl, m_gas, num_train_epochs, max_train_steps, resume,
                   starting_epoch, resume_step, step, completed_steps,
                   sched_steps, m_opt_steps, since_step, zeroed, last_window,
                   last_was_final>>
    /\ UNCHANGED epoch_steps
    /\ UNCHANGED <<varVars, expVars, retryVars, ensVars, cosVars, jsonVars>>

---------------------------------------------------------------------------
\* run_experiment (agni_effective_step_sizes.py, lines 37-92)

\* model.parameters()
Params == 1..NumParams

\* gradient a micro-batch contributes to one parameter (already divided by
\* gradient_accumulation_steps, line 55)
GradVals == {Int2Q(-1), Int2Q(2)}

\* values of eta a caller passes: 0, the default 0.01, float('inf')
Etas == {Int2Q(0), <<1, 100>>, Inf(1)}

\* draws of torch.randn_like for one parameter
RandnVals == {Int2Q(-1), Int2Q(0), Int2Q(1)}

\* lr of line 39
LearningRate == <<1, 1000>>

\* the tensor p.grad refers to
GradOf(p) == heap[p][grad[p]]

\* the tensors the entries of gradient_dict[p] refer to, as they are now
Snapshots(p) == [k \in 1..Len(gradient_dict[p]) |-> heap[p][gradient_dict[p][k]]]

\* a slip in line 63: the boundary is tested on epoch instead of epoch + 1
Boundary_Epoch(e) == e % gradient_accumulation_steps = 0

\* line 63
Boundary(e) == (e + 1) % gradient_accumulation_steps = 0

\* a slip in line 75: the magnitude is added to the scale
NoiseScale_Plus(var, g) ==
    LET grad_magnitude == TNorm(g)
    IN  [k \in 1..Len(g) |-> RAdd(RSqrt(RMul(eta, var[k])), grad_magnitude)]

\* lines 72 and 75
NoiseScale(var, g) ==
    LET grad_magnitude == TNorm(g)
    IN  [k \in 1..Len(g) |-> RMul(RSqrt(RMul(eta, var[k])), grad_magnitude)]

RECURSIVE EffectiveStep(_, _, _)
RECURSIVE EffectiveStep_NoLr(_, _, _)
\* a slip in line 85: the norms are summed without the learning rate
EffectiveStep_NoLr(gv, has, k) ==
    IF k = 0 THEN Int2Q(0)
    ELSE RAdd(EffectiveStep_NoLr(gv, has, k - 1),
              IF has[k] THEN TNorm(gv[k]) ELSE Int2Q(0))

\* lines 82-86 for gradient values gv, has[p] telling p.grad is not None
EffectiveStep(gv, has, k) ==
    IF k = 0 THEN Int2Q(0)
    ELSE RAdd(EffectiveStep(gv, has, k - 1),
              IF has[k] THEN RMul(LearningRate, TNorm(gv[k])) ELSE Int2Q(0))

\* a slip in the order of lines 81-90: the optimizer steps before the
\* step size is recorded
PhaseAfter_StepFirst(ph) ==
    CASE ph = "inject" -> "optimizer"
      [] ph = "optimizer" -> "record"
      [] ph = "record" -> "zero_grad"
      [] ph = "zero_grad" -> "loop"

\* lines 64-90: the phase that follows phase ph at a boundary
PhaseAfter(ph) ==
    CASE ph = "inject" -> "record"
      [] ph = "record" -> "optimizer"
      [] ph = "optimizer" -> "zero_grad"
      [] ph = "zero_grad" -> "loop"

ExpIdle ==
    /\ use_noise_injection = FALSE /\ num_epochs = 0
    /\ gradient_accumulation_steps = 0 /\ eta = Int2Q(0)
    /\ set_to_none = FALSE /\ epoch = 0 /\ pc = "idle"
    /\ heap = <<>> /\ grad = <<>> /\ gradient_dict = <<>>
    /\ effective_step_sizes = <<>> /\ params_nan = FALSE /\ opt_steps = 0
    /\ last_n = <<>> /\ pre_grad = <<>> /\ ref_grad = <<>> /\ ref_steps = <<>>

\* lines 38-43
ExpInit ==
    /\ use_noise_injection \in BOOLEAN
    /\ num_epochs \in 1..MaxEpochs
    /\ gradient_accumulation_steps \in 1..MaxGas
    /\ eta \in Etas
    /\ set_to_none \in BOOLEAN
    /\ epoch = 0 /\ pc = "loop"
    /\ heap = [p \in Params |-> <<>>]
    /\ grad = [p \in Params |-> 0]
    /\ gradient_dict = [p \in Params |-> <<>>]
    /\ effective_step_sizes = <<>>
    /\ params_nan = FALSE /\ opt_steps = 0
    /\ last_n = [p \in Params |-> 0]
    /\ pre_grad = [p \in Params |-> <<>>]
    /\ ref_grad = [p \in Params |-> <<Int2Q(0)>>]
    /\ ref_steps = <<>>

\* lines 45-56: forward and backward of one iteration. AccumulateGrad
\* allocates p.grad when it is None and adds in place otherwise.
ExpBackward ==
    /\ pc = "loop" /\ epoch < num_epochs
    /\ \E g \in [Params -> (IF params_nan THEN {NaN} ELSE GradVals)] :
          /\ heap' = [p \in Params |->
                        IF grad[p] = 0
                        THEN Append(heap[p], <<g[p]>>)
                        ELSE [heap[p] EXCEPT ![grad[p]] = TAdd(@, <<g[p]>>)]]
          /\ grad' = [p \in Params |->
                        IF grad[p] = 0 THEN Len(heap[p]) + 1 ELSE grad[p]]
          /\ ref_grad' = [p \in Params |-> TAdd(ref_grad[p], <<g[p]>>)]
    /\ pc' = "collect"
    /\ UNCHANGED <<use_noise_injection, num_epochs, gradient_accumulation_steps,
                   eta, set_to_none, epoch, gradient_dict, effective_step_sizes,
                   params_nan, opt_steps, last_n, pre_grad, ref_steps>>
    /\ UNCHANGED <<varVars, retryVars, mainVars, ensVars, cosVars, jsonVars>>

\* a slip in line 61: the snapshot is not appended
Collected_Dropped(p) == gradient_dict[p]

\* line 61: the buffer of p after its snapshot is appended
Collected(p) == Append(gradient_dict[p], grad[p])

\* lines 59-63: view(-1).detach() shares the storage of p.grad, so the
\* entry appended is a reference to the live gradient tensor
ExpCollect ==
    /\ pc = "collect"
    /\ gradient_dict' = [p \in Params |->
                           IF grad[p] # 0 THEN Collected(p) ELSE gradient_dict[p]]
    /\ IF Boundary(epoch)
       THEN /\ pc' = (IF use_noise_injection THEN "inject" ELSE PhaseAfter("inject"))
            /\ epoch' = epoch
       ELSE /\ pc' = "loop"
            /\ epoch' = epoch + 1
    /\ UNCHANGED <<use_noise_injection, num_epochs, gradient_accumulation_steps,
                   eta, set_to_none, heap, grad, effective_step_sizes,
                   params_nan, opt_steps, last_n, pre_grad, ref_grad, ref_steps>>
    /\ UNCHANGED <<varVars, retryVars, mainVars, ensVars, cosVars, jsonVars>>

\* parameters that make compute_variance_online raise (empty buffer)
Failing == {p \in Params : grad[p] # 0 /\ gradient_dict[p] = <<>>}

\* parameters the loop of line 66 handles before it stops
Handled ==
    {p \in Params : grad[p] # 0 /\ \A q \in Failing : p < q}

\* a slip in line 69: the consumed snapshots are kept
ConsumedBuffer_Keep(p) == gradient_dict[p]

\* line 69
ConsumedBuffer(p) == <<>>

\* lines 64-79
ExpInject ==
    /\ pc = "inject"
    /\ \E z \in [Params -> RandnVals] :
          /\ heap' = [p \in Params |->
                IF p \in Handled
                THEN LET gradient_variance ==
                             compute_variance_online(Snapshots(p)).value
                         noise_scale == NoiseScale(gradient_variance, GradOf(p))
                         noise == TScale(noise_scale, z[p])
                     IN  [heap[p] EXCEPT ![grad[p]] = TAdd(@, noise)]
                ELSE heap[p]]
    /\ gradient_dict' = [p \in Params |->
                           IF p \in Handled THEN ConsumedBuffer(p) ELSE gradient_dict[p]]
    /\ last_n' = [p \in Params |->
                    IF p \in Handled
                    THEN compute_variance_online(Snapshots(p)).n
                    ELSE last_n[p]]
    /\ pre_grad' = [p \in Params |->
                      IF p \in Handled THEN GradOf(p) ELSE pre_grad[p]]
    /\ pc' = (IF Failing = {} THEN PhaseAfter("inject") ELSE "raised")
    /\ UNCHANGED <<use_noise_injection, num_epochs, gradient_accumulation_steps,
                   eta, set_to_none, epoch, grad, effective_step_sizes,
                   params_nan, opt_steps, ref_grad, ref_steps>>
    /\ UNCHANGED <<varVars, retryVars, mainVars, ensVars, cosVars, jsonVars>>

\* lines 81-86
ExpRecord ==
    /\ pc = "record"
    /\ effective_step_sizes' =
          Append(effective_step_sizes,
                 EffectiveStep([p \in Params |-> IF grad[p] # 0 THEN GradOf(p) ELSE <<>>],
                               [p \in Params |-> grad[p] # 0], NumParams))
    /\ ref_steps' =
          Append(ref_steps,
                 EffectiveStep(ref_grad, [p \in Params |-> grad[p] # 0], NumParams))
    /\ pc' = PhaseAfter("record")
    /\ UNCHANGED <<use_noise_injection, num_epochs, gradient_accumulation_steps,
                   eta, set_to_none, epoch, heap, grad, gradient_dict,
                   params_nan, opt_steps, last_n, pre_grad, ref_grad>>
    /\ UNCHANGED <<varVars, retryVars, mainVars, ensVars, cosVars, jsonVars>>

\* line 89: AdamW turns a non-finite gradient into non-finite weights
ExpOptimizerStep ==
    /\ pc = "optimizer"
    /\ opt_steps' = opt_steps + 1
    /\ params_nan' = (params_nan \/ \E p \in Params : grad[p] # 0 /\ ~TFinite(GradOf(p)))
    /\ pc' = PhaseAfter("optimizer")
    /\ UNCHANGED <<use_noise_injection, num_epochs, gradient_accumulation_steps,
                   eta, set_to_none, epoch, heap, grad, gradient_dict,
                   effective_step_sizes, last_n, pre_grad, ref_grad, ref_steps>>
    /\ UNCHANGED <<varVars, retryVars, mainVars, ensVars, cosVars, jsonVars>>

\* line 90 and the advance of the loop of line 45
ExpZeroGrad ==
    /\ pc = "zero_grad"
    /\ IF set_to_none
       THEN /\ grad' = [p \in Params |-> 0]
            /\ heap' = heap
       ELSE /\ grad' = grad
            /\ heap' = [p \in Params |->
                          IF grad[p] # 0
                          THEN [heap[p] EXCEPT ![grad[p]] = TZeros(Len(@))]
                          ELSE heap[p]]
    /\ ref_grad' = [p \in Params |-> <<Int2Q(0)>>]
    /\ epoch' = epoch + 1
    /\ pc' = PhaseAfter("zero_grad")
    /\ UNCHANGED <<use_noise_injection, num_epochs, gradient_accumulation_steps,
                   eta, set_to_none, gradient_dict, effective_step_sizes,
                   params_nan, opt_steps, last_n, pre_grad, ref_steps>>
    /\ UNCHANGED <<varVars, retryVars, mainVars, ensVars, cosVars, jsonVars>>

\* line 92
ExpReturn ==
    /\ pc = "loop" /\ epoch = num_epochs
    /\ pc' = "returned"
    /\ UNCHANGED <<use_noise_injection, num_epochs, gradient_accumulation_steps,
                   eta, set_to_none, epoch, heap, grad, gradient_dict,
                   effective_step_sizes, params_nan, opt_steps, last_n,
                   pre_grad, ref_grad, ref_steps>>
    /\ UNCHANGED <<varVars, retryVars, mainVars, ensVars, cosVars, jsonVars>>

---------------------------------------------------------------------------
\* EnsembleModel (run_glue_baselines2.py lines 316-379; PerturbedEnsembleModel,
\* lines 235-312, has the same forward) and the two-member combiners
\* (lines 423-472).  A logit tensor of shape [B, L] is a sequence of B rows
\* of L numbers.  The loss is modelled by the loss class forward selects;
\* evaluating that class on the labels is not modelled.

\* torch dtypes a labels tensor can have
Dtypes == {"long", "int", "short", "uint8", "float"}

ProblemTypes ==
    {"regression", "single_label_classification", "multi_label_classification"}

LogitSeeds == {-1, 2}

\* logits of shape [b, l] produced by one member
Logits(seed, b, l) == [i \in 1..b |-> [j \in 1..l |-> Int2Q(seed * (i + j) - j)]]

\* the logits of the members of an ensemble, one seed each
MemberLogits(seeds, b, l) == [i \in 1..Len(seeds) |-> Logits(seeds[i], b, l)]

Shape(m) == <<Len(m), Len(m[1])>>

MZeros(b, l) == [i \in 1..b |-> TZeros(l)]

MAdd(a, c) == [i \in 1..Len(a) |-> TAdd(a[i], c[i])]

MScale(m, s) == [i \in 1..Len(m) |-> TScale(m[i], s)]

MDiv(m, s) == [i \in 1..Len(m) |-> [j \in 1..Len(m[i]) |-> RDiv(m[i][j], s)]]

RECURSIVE MSum(_, _, _)
\* torch.sum(torch.stack(ms), dim=0)
MSum(ms, b, l) ==
    IF ms = <<>> THEN MZeros(b, l) ELSE MAdd(Head(ms), MSum(Tail(ms), b, l))

\* line 325, with the division dropped
InitWeights_Ones(m) == [i \in 1..m |-> Int2Q(1)]

\* line 325: torch.ones(num_models) / num_models
InitWeights(m) == [i \in 1..m |-> Q(1, m)]

\* values the optimizer may have moved m weights to
TrainedWeights(m) == {[i \in 1..m |-> Q(i, 4)]}

\* lines 354-360
InferProblemType(nl, dtype) ==
    IF nl = 1 THEN "regression"
    ELSE IF nl > 1 /\ (dtype = "long" \/ dtype = "int")
         THEN "single_label_classification"
    ELSE "multi_label_classification"

\* lines 353-360 without the test of line 353
ProblemTypeAfter_Always(pt, nl, dtype) == InferProblemType(nl, dtype)

\* lines 353-360: config.problem_type after the inference block
ProblemTypeAfter(pt, nl, dtype) ==
    IF pt = "None" THEN InferProblemType(nl, dtype) ELSE pt

\* lines 362-373: the loss class chosen for a problem type
LossFct(pt) ==
    CASE pt = "regression" -> "MSELoss"
      [] pt = "single_label_classification" -> "CrossEntropyLoss"
      [] pt = "multi_label_classification" -> "BCEWithLogitsLoss"
      [] OTHER -> "None"

\* lines 333-347: sum over the members of logits * weights[index]
CombinedLogits(ws, ls, b, l) ==
    MSum([i \in 1..Len(ls) |-> MScale(ls[i], ws[i])], b, l)

NoOut ==
    [called |-> FALSE, labels |-> "None", was_unset |-> FALSE, loss |-> "None",
     seeds |-> <<>>, batch |-> 0, weights |-> <<>>, combined_logits |-> <<>>]

NoCall ==
    [variant |-> "None", batch |-> 0, dim |-> 0, seeds |-> <<>>,
     args |-> <<>>, ok |-> FALSE, shape |-> <<>>, value |-> <<>>]

EnsIdle ==
    /\ e_mode = "idle" /\ num_labels = 0 /\ num_models = 0
    /\ problem_type = "None" /\ weights = <<>>
    /\ out = NoOut /\ c_out = NoCall

\* lines 317-325 for EnsembleModel; a two-member combiner is constructed
\* and applied once, by its action
EnsInit ==
    /\ e_mode \in {"ensemble", "pair"}
    /\ IF e_mode = "ensemble"
       THEN /\ num_labels \in 1..MaxLabels
            /\ num_models \in 1..MaxModels
            /\ problem_type \in {"None"} \cup ProblemTypes
            /\ weights = InitWeights(num_models)
       ELSE /\ num_labels = 0 /\ num_models = 0
            /\ problem_type = "None" /\ weights = <<>>
    /\ out = NoOut /\ c_out = NoCall

\* lines 327-379
EnsForward ==
    /\ e_mode = "ensemble"
    /\ \E b \in 1..MaxBatch, seed \in LogitSeeds, labels \in Dtypes \cup {"None"} :
          LET seeds == [i \in 1..num_models |-> seed + i - 1]
              ls == MemberLogits(seeds, b, num_labels)
              pt == IF labels = "None" THEN problem_type
                    ELSE ProblemTypeAfter(problem_type, num_labels, labels)
          IN  /\ problem_type' = pt
              /\ out' = [called |-> TRUE, labels |-> labels,
                         was_unset |-> (problem_type = "None"),
                         loss |-> IF labels = "None" THEN "None" ELSE LossFct(pt),
                         seeds |-> seeds, batch |-> b, weights |-> weights,
                         combined_logits |->
                             CombinedLogits(weights, ls, b, num_labels)]
    /\ UNCHANGED <<e_mode, num_labels, num_models, weights, c_out>>
    /\ UNCHANGED <<varVars, expVars, retryVars, mainVars, cosVars, jsonVars>>

\* line 898: the optimizer moves the ensemble weights
EnsOptimizerStep ==
    /\ e_mode = "ensemble"
    /\ weights' \in TrainedWeights(num_models)
    /\ weights' # weights
    /\ UNCHANGED <<e_mode, num_labels, num_models, problem_type, out, c_out>>
    /\ UNCHANGED <<varVars, expVars, retryVars, mainVars, cosVars, jsonVars>>

\* tensor shapes; <<>> stands for the RuntimeError of a shape mismatch
ShapeError == <<>>

\* torch.cat along dim 0 instead of dim 1
ShapeCat1_Dim0(s1, s2) ==
    IF s1[2] = s2[2] THEN <<s1[1] + s2[1], s1[2]>> ELSE ShapeError

\* torch.cat([a, b], dim=1)
ShapeCat1(s1, s2) ==
    IF s1[1] = s2[1] THEN <<s1[1], s1[2] + s2[2]>> ELSE ShapeError

\* nn.Linear(in_features, out_features) applied to a tensor of shape s
ShapeLinear(s, in_features, out_features) ==
    IF s # ShapeError /\ s[2] = in_features THEN <<s[1], out_features>>
    ELSE ShapeError

\* elementwise product or sum with broadcasting of dimensions of size 1
ShapeBroadcast(s1, s2) ==
    IF s1 = ShapeError \/ s2 = ShapeError THEN ShapeError
    ELSE IF \A k \in 1..2 : s1[k] = s2[k] \/ s1[k] = 1 \/ s2[k] = 1
         THEN [k \in 1..2 |-> IF s1[k] = 1 THEN s2[k] ELSE s1[k]]
    ELSE ShapeError

\* lines 426, 428-429
WeightedSumInit == <<Q(1, 2), Q(1, 2)>>

WeightedSum(w, l1, l2) == MAdd(MScale(l1, w[1]), MScale(l2, w[2]))

\* lines 436, 443-445: Linear(input_dim * 2, num_labels) on the concatenation
LogitsTransformerShape(input_dim, nl, s1, s2) ==
    ShapeLinear(ShapeCat1(s1, s2), input_dim * 2, nl)

\* lines 447-450: softmax and the mean keep the shape
SoftVotingShape(s1, s2) == ShapeBroadcast(s1, s2)

\* lines 455-462: gates has shape [B, 2]; its columns are sliced to [B, 1]
GatedMixtureOfExpertsShape(input_dim, s1, s2) ==
    LET gates == ShapeLinear(ShapeCat1(s1, s2), input_dim, 2)
    IN  IF gates = ShapeError THEN ShapeError
        ELSE ShapeBroadcast(ShapeBroadcast(s1, <<gates[1], 1>>),
                            ShapeBroadcast(s2, <<gates[1], 1>>))

\* alpha is k * ln 2, so that exp(alpha) is the power of two 2^k; float32
\* overflows to +inf from 2^128 on and rounds to 0 below its least
\* subnormal 2^-149
AlphaExps == {-150, -2, 0, 1, 128}

\* torch.exp on float32 (line 470)
Exp2(k) ==
    IF k >= 128 THEN Inf(1)
    ELSE IF k < -149 THEN Int2Q(0)
    ELSE IF k >= 0 THEN Int2Q(Pow2(k)) ELSE Q(1, Pow2(-k))

\* lines 470-472
AdaBoostCombiner(alpha, l1, l2) ==
    LET w == <<Exp2(alpha[1]), Exp2(alpha[2])>>
        combined_logits == MAdd(MScale(l1, w[1]), MScale(l2, w[2]))
    IN  MDiv(combined_logits, RAdd(w[1], w[2]))

\* lines 428-429
WeightedSumForward ==
    /\ e_mode = "pair" /\ c_out = NoCall
    /\ \E b \in 1..MaxBatch, l \in 1..MaxLabels, s1 \in LogitSeeds,
          s2 \in LogitSeeds, w \in {WeightedSumInit} \cup TrainedWeights(2) :
          LET v == WeightedSum(w, Logits(s1, b, l), Logits(s2, b, l))
          IN  c_out' = [variant |-> "WeightedSum", batch |-> b, dim |-> l,
                        seeds |-> <<s1, s2>>, args |-> w, ok |-> TRUE,
                        shape |-> Shape(v), value |-> v]
    /\ UNCHANGED <<e_mode, num_labels, num_models, problem_type, weights, out>>
    /\ UNCHANGED <<varVars, expVars, retryVars, mainVars, cosVars, jsonVars>>

\* lines 443-445
LogitsTransformerForward ==
    /\ e_mode = "pair" /\ c_out = NoCall
    /\ \E b \in 1..MaxBatch, l \in 1..MaxLabels, input_dim \in 1..(2 * MaxLabels),
          nl \in 1..MaxLabels :
          LET s == LogitsTransformerShape(input_dim, nl, <<b, l>>, <<b, l>>)
          IN  c_out' = [variant |-> "LogitsTransformer", batch |-> b, dim |-> l,
                        seeds |-> <<>>, args |-> <<input_dim, nl>>,
                        ok |-> (s # ShapeError), shape |-> s, value |-> <<>>]
    /\ UNCHANGED <<e_mode, num_labels, num_models, problem_type, weights, out>>
    /\ UNCHANGED <<varVars, expVars, retryVars, mainVars, cosVars, jsonVars>>

\* lines 447-450
SoftVotingCall ==
    /\ e_mode = "pair" /\ c_out = NoCall
    /\ \E b \in 1..MaxBatch, l \in 1..MaxLabels :
          LET s == SoftVotingShape(<<b, l>>, <<b, l>>)
          IN  c_out' = [variant |-> "soft_voting", batch |-> b, dim |-> l,
                        seeds |-> <<>>, args |-> <<>>,
                        ok |-> (s # ShapeError), shape |-> s, value |-> <<>>]
    /\ UNCHANGED <<e_mode, num_labels, num_models, problem_type, weights, out>>
    /\ UNCHANGED <<varVars, expVars, retryVars, mainVars, cosVars, jsonVars>>

\* lines 460-462
GatedMixtureOfExpertsForward ==
    /\ e_mode = "pair" /\ c_out = NoCall
    /\ \E b \in 1..MaxBatch, l \in 1..MaxLabels, input_dim \in 1..(2 * MaxLabels) :
          LET s == GatedMixtureOfExpertsShape(input_dim, <<b, l>>, <<b, l>>)
          IN  c_out' = [variant |-> "GatedMixtureOfExperts", batch |-> b,
                        dim |-> l, seeds |-> <<>>, args |-> <<input_dim>>,
                        ok |-> (s # ShapeError), shape |-> s, value |-> <<>>]
    /\ UNCHANGED <<e_mode, num_labels, num_models, problem_type, weights, out>>
    /\ UNCHANGED <<varVars, expVars, retryVars, mainVars, cosVars, jsonVars>>

\* lines 469-472
AdaBoostCombinerForward ==
    /\ e_mode = "pair" /\ c_out = NoCall
    /\ \E b \in 1..MaxBatch, l \in 1..MaxLabels, s1 \in LogitSeeds,
          s2 \in LogitSeeds, alpha \in AlphaExps \X AlphaExps :
          LET v == AdaBoostCombiner(alpha, Logits(s1, b, l), Logits(s2, b, l))
          IN  c_out' = [variant |-> "AdaBoostCombiner", batch |-> b, dim |-> l,
                        seeds |-> <<s1, s2>>, args |-> alpha, ok |-> TRUE,
                        shape |-> Shape(v), value |-> v]
    /\ UNCHANGED <<e_mode, num_labels, num_models, problem_type, weights, out>>
    /\ UNCHANGED <<varVars, expVars, retryVars, mainVars, cosVars, jsonVars>>

---------------------------------------------------------------------------
\* n_cosine_similarity (run_glue_baselines2.py lines 392-417).  A row of a
\* member tensor is named <<member, row>>, and the cosine similarity of two
\* normalized rows is named by the pair of their names, so that a block
\* tells which rows it compares.

\* line 404: the cumulative sums 0, size_1, size_1 + size_2, ...
RECURSIVE Indices(_)
Indices(sizes) ==
    IF sizes = <<>> THEN <<0>>
    ELSE LET front == Indices(SubSeq(sizes, 1, Len(sizes) - 1))
         IN  Append(front, front[Len(front)] + sizes[Len(sizes)])

\* lines 394-397: the rows of all tensors, concatenated along dim 0
RECURSIVE AllTensors(_, _)
AllTensors(sizes, m) ==
    IF m > Len(sizes) THEN <<>>
    ELSE [a \in 1..sizes[m] |-> <<m, a>>] \o AllTensors(sizes, m + 1)

\* line 400: torch.mm(all_tensors, all_tensors.t())
SimilarityMatrix(all) ==
    [r \in 1..Len(all) |-> [c \in 1..Len(all) |-> <<all[r], all[c]>>]]

\* line 412: matrix[r0:r1, c0:c1] with Python's half-open ranges from 0
Slice(matrix, r0, r1, c0, c1) ==
    [a \in 1..(r1 - r0) |-> [b \in 1..(c1 - c0) |-> matrix[r0 + a][c0 + b]]]

\* line 412 for members i and j counted from 1
Block(sizes, i, j) ==
    LET indices == Indices(sizes)
    IN  Slice(SimilarityMatrix(AllTensors(sizes, 1)),
              indices[i], indices[i + 1], indices[j], indices[j + 1])

\* a slip in line 411: the inner loop starts at i
FirstPartner_Self(i) == i

\* line 411: range(i + 1, len(tensor_list))
FirstPartner(i) == i + 1

\* lines 410-411: the pair after (i, j); past the last one i exceeds n
RECURSIVE NextPair(_, _, _)
NextPair(i, j, m) ==
    IF j < m THEN <<i, j + 1>>
    ELSE IF i + 1 > m THEN <<i + 1, i + 1>>
    ELSE IF FirstPartner(i + 1) <= m THEN <<i + 1, FirstPartner(i + 1)>>
    ELSE NextPair(i + 1, m, m)

\* lines 410-411: the first pair of the loops
FirstPair(m) ==
    IF m = 0 THEN <<1, 1>>
    ELSE IF FirstPartner(1) <= m THEN <<1, FirstPartner(1)>>
    ELSE NextPair(1, m, m)

\* line 416: torch.cat(blocks, dim=0) needs a non-empty list of blocks
\* with the same number of columns
CatFails(blocks) ==
    \/ blocks = <<>>
    \/ \E k \in 1..Len(blocks) : Len(blocks[k][1]) # Len(blocks[1][1])

RECURSIVE Cat0(_)
Cat0(blocks) == IF blocks = <<>> THEN <<>> ELSE Head(blocks) \o Cat0(Tail(blocks))

CosIdle ==
    /\ tensor_sizes = <<>> /\ cs_i = 0 /\ cs_j = 0 /\ similarities = <<>>
    /\ result_tensor = <<>> /\ cs_pc = "idle"

\* lines 392-407
CosInit ==
    /\ \E m \in 1..MaxMembers : tensor_sizes \in [1..m -> 1..MaxRows]
    /\ cs_i = FirstPair(Len(tensor_sizes))[1]
    /\ cs_j = FirstPair(Len(tensor_sizes))[2]
    /\ similarities = <<>> /\ result_tensor = <<>> /\ cs_pc = "loop"

\* lines 410-413: one pass of the inner loop
CosPair ==
    /\ cs_pc = "loop" /\ cs_i <= Len(tensor_sizes)
    /\ similarities' = Append(similarities, Block(tensor_sizes, cs_i, cs_j))
    /\ cs_i' = NextPair(cs_i, cs_j, Len(tensor_sizes))[1]
    /\ cs_j' = NextPair(cs_i, cs_j, Len(tensor_sizes))[2]
    /\ UNCHANGED <<tensor_sizes, result_tensor, cs_pc>>
    /\ UNCHANGED <<varVars, expVars, retryVars, mainVars, ensVars, jsonVars>>

\* lines 416-418
CosReturn ==
    /\ cs_pc = "loop" /\ cs_i > Len(tensor_sizes)
    /\ IF CatFails(similarities)
       THEN cs_pc' = "raised" /\ result_tensor' = result_tensor
       ELSE cs_pc' = "returned" /\ result_tensor' = Cat0(similarities)
    /\ UNCHANGED <<tensor_sizes, cs_i, cs_j, similarities>>
    /\ UNCHANGED <<varVars, expVars, retryVars, mainVars, ensVars, jsonVars>>

---------------------------------------------------------------------------
\* check_and_fix_json_files (fix_jsons.py lines 6-33).  A file content is a
\* string over the characters below: "1" is a digit, "k" stands for a key
\* with its colon ("k":), " " for any whitespace.  JSON values are numbers
\* (a run of digits) and objects with no member or one member.

Chars == {"{", "}", "k", "1", " "}

Contents == UNION {[1..len -> Chars] : len \in 0..MaxChars}

\* a file name is its parts in order; "broken_" and ".json" are the parts
\* the code looks at
NameA == <<"a", ".json">>

BackupPath(file) == <<"broken_">> \o file

Names == {NameA, BackupPath(NameA)}

\* the content of a name no file has
Absent == <<"absent">>

\* line 9
Eligible(file) == file[Len(file)] = ".json" /\ file[1] # "broken_"

RECURSIVE SkipWs(_, _)
\* the first position from i on that holds no whitespace
SkipWs(str, i) ==
    IF i <= Len(str) /\ str[i] = " " THEN SkipWs(str, i + 1) ELSE i

RECURSIVE SkipDigits(_, _)
SkipDigits(str, i) ==
    IF i <= Len(str) /\ str[i] = "1" THEN SkipDigits(str, i + 1) ELSE i

RECURSIVE ParseValue(_, _)
\* json's raw_decode at position i: the position after the value, 0 when
\* no value can be decoded there
ParseValue(str, i) ==
    IF i > Len(str) THEN 0
    ELSE IF str[i] = "1" THEN SkipDigits(str, i)
    ELSE IF str[i] = "{" THEN
        LET j == SkipWs(str, i + 1)
        IN  IF j > Len(str) THEN 0
            ELSE IF str[j] = "}" THEN j + 1
            ELSE IF str[j] = "k" THEN
                LET v == ParseValue(str, SkipWs(str, j + 1))
                    e == SkipWs(str, v)
                IN  IF v = 0 THEN 0
                    ELSE IF e <= Len(str) /\ str[e] = "}" THEN e + 1
                    ELSE 0
            ELSE 0
    ELSE 0

\* lines 12-15: json.load; "extra_data" is the JSONDecodeError whose
\* message holds 'Extra data', "error" any other JSONDecodeError
JsonLoad(str) ==
    LET v == ParseValue(str, SkipWs(str, 1))
    IN  IF v = 0 THEN "error"
        ELSE IF SkipWs(str, v) <= Len(str) THEN "extra_data"
        ELSE "ok"

RECURSIVE Count(_, _)
\* str.count(ch)
Count(str, ch) ==
    IF str = <<>> THEN 0
    ELSE (IF Head(str) = ch THEN 1 ELSE 0) + Count(Tail(str), ch)

RECURSIVE RStrip(_, _)
\* str.rstrip(ch): every trailing ch is removed
RStrip(str, ch) ==
    IF str # <<>> /\ str[Len(str)] = ch
    THEN RStrip(SubSeq(str, 1, Len(str) - 1), ch) ELSE str

RECURSIVE LStrip(_, _)
LStrip(str, ch) ==
    IF str # <<>> /\ Head(str) = ch THEN LStrip(Tail(str), ch) ELSE str

\* line 17: str.strip()
Strip(str) == LStrip(RStrip(str, " "), " ")

\* line 19
HasTrailingBrace(content) ==
    /\ content # <<>> /\ content[Len(content)] = "}"
    /\ Count(content, "}") > Count(content, "{")

\* line 28
FixedContent(content) == RStrip(content, "}")

\* the orders in which os.walk may list the files that exist
Listings(dir) ==
    LET present == {f \in Names : dir[f] # Absent}
    IN  {l \in UNION {[1..k -> present] : k \in 0..Cardinality(Names)} :
            /\ Len(l) = Cardinality(present)
            /\ \A x, y \in 1..Len(l) : x # y => l[x] # l[y]}

JsonIdle ==
    /\ fix = FALSE /\ fs = <<>> /\ fs0 = <<>> /\ files = <<>>
    /\ file_i = 0 /\ j_pc = "idle"

\* lines 6-8 and 35-41
JsonInit ==
    /\ fix \in BOOLEAN
    /\ \E c \in Contents, b \in {Absent, <<"1">>} :
          fs = [f \in Names |-> IF f = NameA THEN c ELSE b]
    /\ fs0 = fs
    /\ files \in Listings(fs)
    /\ file_i = 1 /\ j_pc = "walk"

\* lines 8-33: the body of the loop for one file
JsonVisit ==
    /\ j_pc = "walk" /\ file_i <= Len(files)
    /\ LET file == files[file_i]
           content == Strip(fs[file])
       IN  IF /\ Eligible(file)
              /\ JsonLoad(fs[file]) = "extra_data"
              /\ HasTrailingBrace(content)
              /\ fix
           THEN fs' = [fs EXCEPT ![BackupPath(file)] = fs[file],
                                 ![file] = FixedContent(content)]
           ELSE fs' = fs
    /\ file_i' = file_i + 1
    /\ UNCHANGED <<fix, fs0, files, j_pc>>
    /\ UNCHANGED <<varVars, expVars, retryVars, mainVars, ensVars, cosVars>>

\* line 7: the walk is over
JsonDone ==
    /\ j_pc = "walk" /\ file_i > Len(files)
    /\ j_pc' = "done"
    /\ UNCHANGED <<fix, fs, fs0, files, file_i>>
    /\ UNCHANGED <<varVars, expVars, retryVars, mainVars, ensVars, cosVars>>

---------------------------------------------------------------------------
\* Specifications

Init == ExpInit /\ VarIdle /\ RetryIdle /\ MainIdle /\ EnsIdle /\ CosIdle /\ JsonIdle

Next ==
    \/ ExpBackward \/ ExpCollect \/ ExpInject \/ ExpRecord
    \/ ExpOptimizerStep \/ ExpZeroGrad \/ ExpReturn

Spec == Init /\ [][Next]_vars

InitVariance == VarInit /\ ExpIdle /\ RetryIdle /\ MainIdle /\ EnsIdle /\ CosIdle /\ JsonIdle

NextVariance == VarLoop \/ VarReturn

SpecVariance == InitVariance /\ [][NextVariance]_vars

InitRetry == RetryInit /\ VarIdle /\ ExpIdle /\ MainIdle /\ EnsIdle /\ CosIdle /\ JsonIdle

NextRetry == RetryCall \/ RetryHandler \/ RetryExhausted

SpecRetry == InitRetry /\ [][NextRetry]_vars

InitMain == MainInit /\ VarIdle /\ ExpIdle /\ RetryIdle /\ EnsIdle /\ CosIdle /\ JsonIdle

NextMain ==
    \/ MainEpoch \/ MainBackward \/ MainOptimizerStep \/ MainSchedulerStep
    \/ MainZeroGrad \/ MainCheck \/ MainEval

SpecMain == InitMain /\ [][NextMain]_vars

InitEnsemble == EnsInit /\ VarIdle /\ ExpIdle /\ RetryIdle /\ MainIdle /\ CosIdle /\ JsonIdle

NextEnsemble ==
    \/ EnsForward \/ EnsOptimizerStep \/ WeightedSumForward
    \/ LogitsTransformerForward \/ SoftVotingCall
    \/ GatedMixtureOfExpertsForward \/ AdaBoostCombinerForward

SpecEnsemble == InitEnsemble /\ [][NextEnsemble]_vars

InitCosine ==
    CosInit /\ VarIdle /\ ExpIdle /\ RetryIdle /\ MainIdle /\ EnsIdle /\ JsonIdle

NextCosine == CosPair \/ CosReturn

SpecCosine == InitCosine /\ [][NextCosine]_vars

InitJson ==
    JsonInit /\ VarIdle /\ ExpIdle /\ RetryIdle /\ MainIdle /\ EnsIdle /\ CosIdle

NextJson == JsonVisit \/ JsonDone

SpecJson == InitJson /\ [][NextJson]_vars

---------------------------------------------------------------------------
\* Properties of the training loop of main (SpecMain)

\* C1: every optimizer step of main is taken when exactly
\* gradient_accumulation_steps micro-batches were back-propagated since the
\* previous optimizer step, except the step on the final micro-batch of an
\* epoch.
C1_StepClosesFullWindow ==
    m_pc = "scheduler" => (last_window = m_gas \/ last_was_final)

---------------------------------------------------------------------------
\* Properties of run_experiment (Spec)

C2_Counts ==
    /\ pc \in {"loop", "returned"} =>
          /\ opt_steps = epoch \div gradient_accumulation_steps
          /\ Len(effective_step_sizes) = epoch \div gradient_accumulation_steps
    /\ pc \in {"record", "optimizer"} =>
          (epoch + 1) % gradient_accumulation_steps = 0
    /\ pc = "zero_grad" => Len(effective_step_sizes) = opt_steps

C2_AppendOnly ==
    /\ Len(effective_step_sizes') >= Len(effective_step_sizes)
    /\ SubSeq(effective_step_sizes', 1, Len(effective_step_sizes)) = effective_step_sizes

\* C2: for either value of use_noise_injection the optimizer steps on
\* iteration e exactly when e+1 is a multiple of gradient_accumulation_steps,
\* effective_step_sizes holds floor(k / gradient_accumulation_steps) entries
\* after k iterations, one per optimizer step, and its entries are never
\* changed or removed.
C2_OneEntryPerStep == [](C2_Counts) /\ [][C2_AppendOnly]_vars

C2_Witness ==
    /\ pc = "loop" /\ epoch = 4 /\ gradient_accumulation_steps = 4
    /\ Len(effective_step_sizes) = 1 /\ opt_steps = 1

\* C3: with use_noise_injection, the buffer of a parameter is empty once
\* the injection phase has consumed it, and the variance of every boundary
\* is computed from the snapshots of its own window only: n counts up from
\* 0 and is exactly gradient_accumulation_steps.
C3_VarianceFromOwnWindow ==
    use_noise_injection =>
        \A p \in Params :
            /\ pc \in {"record", "optimizer", "zero_grad"} =>
                  gradient_dict[p] = <<>> /\ last_n[p] = gradient_accumulation_steps
            /\ pc \in {"loop", "returned"} =>
                  Len(gradient_dict[p]) = epoch % gradient_accumulation_steps
            /\ pc = "inject" =>
                  Len(gradient_dict[p]) = gradient_accumulation_steps

C3_Witness ==
    /\ use_noise_injection /\ pc = "record" /\ opt_steps >= 1
    /\ gradient_accumulation_steps >= 2
    /\ \A p \in Params : last_n[p] = gradient_accumulation_steps

\* C4: for both values of use_noise_injection, gradient_dict[p] never holds
\* more than gradient_accumulation_steps entries and is empty right after
\* every optimizer step.
C4_BufferHoldsCurrentWindow ==
    \A p \in Params :
        /\ Len(gradient_dict[p]) <= gradient_accumulation_steps
        /\ pc = "zero_grad" => gradient_dict[p] = <<>>

\* variances tried on line 75 besides the ones the run produces
VarianceProbe == {Int2Q(0), Int2Q(1), Int2Q(2), <<1, 2>>, <<9, 4>>}

\* C8: with eta = 0 the injection phase leaves every gradient as it was,
\* for any variance and gradient magnitude, and the run records the step
\* sizes of a run without injection fed the same gradients.
C8_EtaZeroIsIdentity ==
    eta = Int2Q(0) =>
        /\ (use_noise_injection /\ pc = "record") =>
              \A p \in Params : GradOf(p) = pre_grad[p]
        /\ pc = "inject" =>
              \A p \in Params : \A v \in VarianceProbe : \A z \in RandnVals :
                  TAdd(GradOf(p), TScale(NoiseScale(<<v>>, GradOf(p)), z)) = GradOf(p)
        /\ effective_step_sizes = ref_steps

C8_Witness ==
    /\ eta = Int2Q(0) /\ use_noise_injection /\ pc = "optimizer"
    /\ Len(effective_step_sizes) >= 2
    /\ effective_step_sizes[Len(effective_step_sizes)] # Int2Q(0)

\* the noise scale of line 75 has a NaN entry, or the variance a negative one
InjectsNaN ==
    \E p \in Params :
        /\ grad[p] # 0 /\ gradient_dict[p] # <<>>
        /\ LET v == compute_variance_online(Snapshots(p)).value
           IN  \E k \in 1..Len(v) :
                  \/ RLess(v[k], Int2Q(0))
                  \/ IsNaN(NoiseScale(v, GradOf(p))[k])

\* C9: when the variance has a negative entry or the noise scale a NaN, the
\* training step fails at once: no gradient is changed and the optimizer
\* step of that boundary is not executed.
C9_NumericErrorFailsFast ==
    [][(pc = "inject" /\ InjectsNaN) =>
          (pc' = "raised" /\ heap' = heap /\ opt_steps' = opt_steps)]_vars

---------------------------------------------------------------------------
\* Properties of compute_variance_online (SpecVariance)

RECURSIVE TSum(_, _)
TSum(ts, d) == IF ts = <<>> THEN TZeros(d) ELSE TAdd(Head(ts), TSum(Tail(ts), d))

\* the two-pass sample variance of a non-empty sequence of samples
TwoPassVariance(ts) ==
    LET d   == Len(ts[1])
        avg == TDivInt(TSum(ts, d), Len(ts))
        dev == [k \in 1..Len(ts) |-> TMul(TSub(ts[k], avg), TSub(ts[k], avg))]
        ss  == TSum(dev, d)
    IN  IF Len(ts) > 1 THEN TDivInt(ss, Len(ts) - 1) ELSE ss

\* C5: for every non-empty sequence of samples the variance returned by
\* compute_variance_online equals, entry by entry, the two-pass sample
\* variance of the sequence.
C5_WelfordEqualsTwoPass ==
    v_pc = "returned" => variance = TwoPassVariance(gradients)

C5_Witness ==
    /\ v_pc = "returned" /\ Len(gradients) = 3
    /\ \E k \in 1..Len(variance) : variance[k] # Int2Q(0)

\* C6: M2 is divided by n-1 only when n > 1; with exactly one sample M2 is
\* returned undivided and is the zero tensor whatever the sample was; no
\* division by zero happens.
C6_SingleSampleGivesZero ==
    v_pc = "returned" =>
        /\ TFinite(variance)
        /\ IF n > 1
           THEN variance = TDivInt(M2, n - 1)
           ELSE variance = M2 /\ variance = TZeros(Len(gradients[1]))

C6_Witness ==
    /\ v_pc = "returned" /\ n = 1 /\ Len(gradients) = 1
    /\ \E k \in 1..Len(gradients[1]) : gradients[1][k] # Int2Q(0)

\* C7: after every update step n is the number of samples folded in, every
\* entry of M2 is non-negative and mean and M2 have the shape of the
\* samples; the returned variance has no negative entry.
C7_WelfordStateInvariant ==
    /\ (v_pc \in {"loop", "returned"} /\ v_i >= 1) =>
          /\ n = v_i
          /\ Len(mean) = Len(gradients[1]) /\ Len(M2) = Len(gradients[1])
          /\ \A k \in 1..Len(M2) : RNonNeg(M2[k])
    /\ v_pc = "returned" =>
          /\ Len(variance) = Len(gradients[1])
          /\ \A k \in 1..Len(variance) : RNonNeg(variance[k])

C7_Witness ==
    /\ v_pc = "returned" /\ n = 3 /\ Len(M2) = 2
    /\ \E k \in 1..Len(M2) : RLess(Int2Q(0), M2[k])

---------------------------------------------------------------------------
\* Properties of compute_with_retry (SpecRetry)

\* the first k calls fail with the transient error and call k+1 succeeds
SucceedsAfter(k) ==
    /\ k < max_retries
    /\ \A j \in 1..k : script[j] = "transient"
    /\ script[k + 1] = "ok"

\* C10: when metric.compute raises the transient ValueError on its first k
\* attempts (k < max_retries) and succeeds on attempt k+1, compute_with_retry
\* waits initial_wait * 2^attempt plus a jitter below one second between the
\* attempts and returns the result of the successful attempt.
C10_RetriesUntilSuccess ==
    \A k \in 0..MaxRetries :
        (SucceedsAfter(k) /\ r_pc \in {"returned", "raised"}) =>
            /\ r_pc = "returned" /\ outcome = "result"
            /\ calls = k + 1
            /\ Len(waits) = k
            /\ \A j \in 1..k :
                  /\ ~RLess(waits[j], Int2Q(BaseWait(initial_wait, j - 1)))
                  /\ RLess(waits[j], Int2Q(BaseWait(initial_wait, j - 1) + 1))


C11_Immediate ==
    (calls >= 1 /\ script[calls] \in {"value_error", "other_error"}) =>
        /\ r_pc = "raised"
        /\ outcome = (IF script[calls] = "value_error" THEN "ValueError" ELSE "OtherError")
        /\ Len(waits) = calls - 1

C11_Final ==
    r_pc = "raised" => (calls' = calls /\ waits' = waits /\ r_pc' = r_pc /\ outcome' = outcome)

\* C11: a failure of metric.compute that is not the transient ValueError (a
\* ValueError with another message, or another exception type) reaches the
\* caller at once: metric.compute is not called again and no wait happens.
C11_OtherFailurePropagates == [](C11_Immediate) /\ [][C11_Final]_vars

C11_Witness ==
    /\ r_pc = "raised" /\ outcome = "ValueError" /\ calls = 1
    /\ max_retries >= 2 /\ waits = <<>>

\* C12: compute_with_retry ends after at most max_retries calls of
\* metric.compute, and when every one of the max_retries attempts fails with
\* the transient error it raises the exception of line 494.
C12_BoundedAttempts ==
    /\ calls <= max_retries
    /\ (r_pc \in {"returned", "raised"}
        /\ \A j \in 1..max_retries : script[j] = "transient") =>
            (r_pc = "raised" /\ outcome = "Exhausted" /\ calls = max_retries)

---------------------------------------------------------------------------
\* Properties of EnsembleModel and the combiners (SpecEnsemble)

C13_UsesCached ==
    (out.called /\ out.labels # "None") => out.loss = LossFct(problem_type)

C13_Keeps == problem_type # "None" => problem_type' = problem_type

\* C13: EnsembleModel.forward infers config.problem_type only while it is
\* unset: once it is set, by the caller or by a forward call with labels, no
\* step changes it, and every forward call with labels takes the loss of
\* that problem type whatever the dtype of the labels it is given.
C13_ProblemTypeCached == [](C13_UsesCached) /\ [][C13_Keeps]_vars

\* a forward call that found single-label classification already set and was
\* given float labels still took the cross-entropy loss
C13_Witness ==
    /\ out.called /\ ~out.was_unset /\ out.labels = "float"
    /\ num_labels > 1
    /\ problem_type = "single_label_classification"
    /\ out.loss = "CrossEntropyLoss"

\* the dtypes of Dtypes that hold integers
IntegerDtypes == {"long", "int", "short", "uint8"}

\* C14: a forward call with labels that finds config.problem_type unset takes
\* the mean-squared-error loss iff num_labels = 1, the cross-entropy loss iff
\* num_labels > 1 and the labels have an integer dtype, whichever integer
\* dtype it is, and binary cross-entropy with logits in every other case.
C14_LossFamily ==
    (out.called /\ out.was_unset /\ out.labels # "None") =>
        out.loss = (IF num_labels = 1 THEN "MSELoss"
                    ELSE IF num_labels > 1 /\ out.labels \in IntegerDtypes
                         THEN "CrossEntropyLoss"
                    ELSE "BCEWithLogitsLoss")

\* the arithmetic mean of the logit tensors ls: their sum divided by their number
MMean(ls, b, l) ==
    LET total == MSum(ls, b, l)
    IN  [i \in 1..b |-> TDivInt(total[i], Len(ls))]

\* entry (i, j) of the weighted sum of the logit tensors ls
WeightedEntry(ws, ls, i, j) ==
    RSum([k \in 1..Len(ls) |-> RMul(ws[k], ls[k][i][j])])

C15_Ensemble ==
    out.called =>
        LET ls == MemberLogits(out.seeds, out.batch, num_labels)
        IN  /\ \A i \in 1..out.batch, j \in 1..num_labels :
                   out.combined_logits[i][j] = WeightedEntry(out.weights, ls, i, j)
            /\ out.weights = InitWeights(num_models) =>
                   out.combined_logits = MMean(ls, out.batch, num_labels)

C15_Pair ==
    c_out.variant = "WeightedSum" =>
        LET ls == MemberLogits(c_out.seeds, c_out.batch, c_out.dim)
        IN  /\ \A i \in 1..c_out.batch, j \in 1..c_out.dim :
                   c_out.value[i][j] = WeightedEntry(c_out.args, ls, i, j)
            /\ c_out.args = WeightedSumInit =>
                   c_out.value = MMean(ls, c_out.batch, c_out.dim)

\* C15: the weighted-sum combination (EnsembleModel.forward and WeightedSum)
\* returns, entry by entry, the sum over the members of weight_i times
\* logits_i, and with the weights as initialised (1/N each, 0.5 and 0.5) the
\* combined logits are the arithmetic mean of the member logits, which is
\* then what the loss is computed on.
C15_WeightedSumIsMean == C15_Ensemble /\ C15_Pair

\* three members with different logits, combined with the initial weights
C15_Witness ==
    /\ out.called /\ num_models = 3 /\ num_labels >= 2
    /\ out.weights = InitWeights(3)
    /\ out.combined_logits = MMean(MemberLogits(out.seeds, out.batch, num_labels),
                                   out.batch, num_labels)
    /\ out.combined_logits # Logits(out.seeds[1], out.batch, num_labels)

\* the effective mixing weights exp(alpha_i) / (exp(alpha_0) + exp(alpha_1))
\* as line 472 computes them
EffectiveWeights(alpha) ==
    LET w == <<Exp2(alpha[1]), Exp2(alpha[2])>>
    IN  <<RDiv(w[1], RAdd(w[1], w[2])), RDiv(w[2], RAdd(w[1], w[2]))>>

\* x lies between a and c, whichever of them is the larger
Between(x, a, c) ==
    \/ ~RLess(x, a) /\ ~RLess(c, x) /\ IsFinite(x)
    \/ ~RLess(x, c) /\ ~RLess(a, x) /\ IsFinite(x)

\* C16: for every value of alpha, AdaBoostCombiner.forward mixes the two
\* members with effective weights that lie strictly between 0 and 1 and sum
\* to 1, so that every entry of its output is the weighted average of the
\* two members' entries and lies between them.
C16_EffectiveWeightsNormalised ==
    c_out.variant = "AdaBoostCombiner" =>
        LET e == EffectiveWeights(c_out.args)
            ls == MemberLogits(c_out.seeds, c_out.batch, c_out.dim)
        IN  /\ \A k \in 1..2 : RLess(Int2Q(0), e[k]) /\ RLess(e[k], Int2Q(1))
            /\ RAdd(e[1], e[2]) = Int2Q(1)
            /\ \A i \in 1..c_out.batch, j \in 1..c_out.dim :
                   /\ c_out.value[i][j] = WeightedEntry(e, ls, i, j)
                   /\ Between(c_out.value[i][j], ls[1][i][j], ls[2][i][j])

\* the same for the values of alpha whose exponentials float32 represents
C16_ModerateAlpha ==
    (c_out.variant = "AdaBoostCombiner"
     /\ \A k \in 1..2 : c_out.args[k] \in -149..127) =>
        C16_EffectiveWeightsNormalised

C17_EnsembleShape ==
    out.called => Shape(out.combined_logits) = <<out.batch, num_labels>>

\* C17 as claimed: every combiner variant whose forward pass succeeds on
\* members' logits of shape [B, L] returns combined logits of shape [B, L].
C17_ShapePreserved ==
    /\ C17_EnsembleShape
    /\ (c_out.variant # "None" /\ c_out.ok) =>
           c_out.shape = <<c_out.batch, c_out.dim>>

\* C17 as amended: every combiner variant whose forward pass succeeds on
\* members' logits of shape [B, L] returns combined logits of shape [B, L],
\* except that LogitsTransformer returns shape [B, num_labels], which is
\* [B, L] when it was constructed with num_labels = L.
C17_ShapePreservedForMatchingLabels ==
    /\ C17_EnsembleShape
    /\ (c_out.variant # "None" /\ c_out.ok) =>
           IF c_out.variant = "LogitsTransformer"
           THEN c_out.shape = <<c_out.batch, c_out.args[2]>>
           ELSE c_out.shape = <<c_out.batch, c_out.dim>>

\* a LogitsTransformer built for L labels succeeded on a batch of two
C17_Witness ==
    /\ c_out.variant = "LogitsTransformer" /\ c_out.ok
    /\ c_out.batch = 2 /\ c_out.dim >= 2
    /\ c_out.args = <<c_out.dim, c_out.dim>>
    /\ c_out.shape = <<2, c_out.dim>>

---------------------------------------------------------------------------
\* Properties of the boundary phases of run_experiment (Spec)

\* learning rate times the L2 norm of p.grad, 0 for a parameter without gradient
StepTerm(p) ==
    IF grad[p] # 0 THEN RMul(LearningRate, TNorm(GradOf(p))) ELSE Int2Q(0)

C18_RecordStep ==
    pc = "record" =>
        /\ heap' = heap /\ grad' = grad
        /\ effective_step_sizes' =
               Append(effective_step_sizes, RSum([p \in Params |-> StepTerm(p)]))

C19_Order ==
    /\ pc = "inject" => pc' \in {"record", "raised"}
    /\ pc = "record" => pc' = "optimizer" /\ heap' = heap /\ grad' = grad
    /\ pc = "optimizer" => pc' = "zero_grad" /\ opt_steps' = opt_steps + 1
    /\ pc = "zero_grad" => pc' = "loop"
    /\ pc' = "inject" => pc = "collect" /\ use_noise_injection
    /\ pc' = "record" => (pc = "inject" \/ (pc = "collect" /\ ~use_noise_injection))
    /\ pc' = "optimizer" => pc = "record"
    /\ pc' = "zero_grad" => pc = "optimizer"

\* the noise added to a parameter's gradient is scaled by the norm that
\* gradient had before the addition
C19_Magnitude ==
    (pc = "inject" /\ pc' = "record") =>
        \A p \in Params : grad[p] # 0 =>
            LET var == compute_variance_online(Snapshots(p)).value
                grad_magnitude == TNorm(GradOf(p))
            IN  \E z \in RandnVals :
                   heap'[p][grad[p]] =
                       [k \in 1..Len(GradOf(p)) |->
                           RAdd(GradOf(p)[k],
                                RMul(z, RMul(RSqrt(RMul(eta, var[k])),
                                             grad_magnitude)))]

\* what was recorded last is the step size of the gradients the optimizer
\* is about to apply
C19_Recorded ==
    pc = "optimizer" =>
        /\ effective_step_sizes # <<>>
        /\ effective_step_sizes[Len(effective_step_sizes)] =
               RSum([p \in Params |-> StepTerm(p)])

\* C19: at every accumulation boundary of run_experiment the phases run in
\* the order noise injection (only if enabled), step-size recording,
\* optimizer step, gradient zeroing; so the recorded step size is that of
\* the perturbed gradients the optimizer then applies, and the magnitude
\* that scales a parameter's noise is the norm of its gradient before the
\* noise was added.
C19_BoundaryPhaseOrder ==
    [](C19_Recorded) /\ [][C19_Order /\ C19_Magnitude]_vars

\* a boundary with injection enabled has run injection, recording and the
\* optimizer step, and the gradient is about to be zeroed
C19_Witness ==
    /\ pc = "zero_grad" /\ use_noise_injection
    /\ opt_steps = Len(effective_step_sizes) /\ opt_steps >= 1
    /\ \A p \in Params : grad[p] # 0 /\ pre_grad[p] # <<>>

---------------------------------------------------------------------------
\* Properties of the step block of main (SpecMain)

\* an optimizer step is followed by one scheduler step and then by the
\* zeroing of the gradients, before anything else happens
C20_Order ==
    /\ m_pc = "optimizer" => m_pc' = "scheduler" /\ m_opt_steps' = m_opt_steps + 1
    /\ m_pc = "scheduler" => m_pc' = "zero_grad" /\ sched_steps' = sched_steps + 1
    /\ m_pc = "zero_grad" =>
           m_pc' = "check" /\ zeroed' /\ completed_steps' = completed_steps + 1
    /\ m_pc \notin {"scheduler"} => sched_steps' = sched_steps
    /\ m_pc' = "batch" => m_pc \in {"epoch", "check"}

\* outside the step block the scheduler has stepped completed_steps times
C20_Counts ==
    m_pc \notin {"scheduler", "zero_grad"} =>
        sched_steps = completed_steps /\ m_opt_steps = completed_steps

\* the first backward pass of a window finds zeroed gradients
C20_WindowStartsZeroed == (m_pc = "batch" /\ since_step = 0) => zeroed

\* C20: in the training loop of main each optimizer step is followed, before
\* the next micro-batch's backward pass, by exactly one scheduler step and
\* then by the zeroing of all gradients; so the number of scheduler steps
\* equals completed_steps whenever the loop is outside that block, and every
\* accumulation window starts from zeroed gradients.
C20_SchedulerFollowsOptimizer ==
    [](C20_Counts /\ C20_WindowStartsZeroed) /\ [][C20_Order]_vars

\* the same for runs that do not resume from a checkpoint
C20_FromScratch ==
    [](resume = "none" => C20_Counts /\ C20_WindowStartsZeroed) /\ [][C20_Order]_vars

---------------------------------------------------------------------------
\* Properties of the gradient guards and snapshots of run_experiment (Spec)

\* the three loops over the parameters leave a parameter without gradient alone
C21_Skips ==
    /\ pc = "collect" =>
           \A p \in Params : grad[p] = 0 => gradient_dict'[p] = gradient_dict[p]
    /\ pc = "inject" =>
           \A p \in Params : grad[p] = 0 =>
               /\ heap'[p] = heap[p] /\ grad'[p] = 0
               /\ gradient_dict'[p] = gradient_dict[p]
    /\ pc = "record" => \A p \in Params : grad[p] = 0 => StepTerm(p) = Int2Q(0)

\* no phase has raised, and injection finds a snapshot for every parameter
\* that has a gradient
C21_NoEmptyBuffer ==
    /\ pc # "raised"
    /\ pc = "inject" => \A p \in Params : grad[p] # 0 => gradient_dict[p] # <<>>

C23_BackwardKeepsSnapshots ==
    pc = "loop" =>
        \A p \in Params : \A k \in 1..Len(gradient_dict[p]) :
            heap'[p][gradient_dict[p][k]] = heap[p][gradient_dict[p][k]]

\* when the variance is computed the buffer holds one snapshot per
\* micro-batch of the window, no two of them the same tensor
C23_IndependentSnapshots ==
    pc = "inject" =>
        \A p \in Params :
            /\ Len(gradient_dict[p]) = gradient_accumulation_steps
            /\ \A j, k \in 1..Len(gradient_dict[p]) :
                   j # k => gradient_dict[p][j] # gradient_dict[p][k]

\* C23: each snapshot appended to a parameter's buffer keeps the gradient
\* value it had when it was appended: a later backward pass of the same
\* window does not change the snapshots already in the buffer, so the buffer
\* holds gradient_accumulation_steps independent values when the variance is
\* computed.
C23_SnapshotsKeepTheirValue ==
    [](C23_IndependentSnapshots) /\ [][C23_BackwardKeepsSnapshots]_vars

---------------------------------------------------------------------------
\* Properties of n_cosine_similarity (SpecCosine)

\* the rows of member i against the rows of member j
ExpectedBlock(i, j) ==
    [a \in 1..tensor_sizes[i] |->
        [b \in 1..tensor_sizes[j] |-> <<<<i, a>>, <<j, b>>>>]]

\* the place of the pair (i, j), i < j, among the unordered pairs of 1..m
PairRank(i, j, m) ==
    Cardinality({pr \in (1..m) \X (1..m) :
                    pr[1] < pr[2] /\ (pr[1] < i \/ (pr[1] = i /\ pr[2] < j))}) + 1

---------------------------------------------------------------------------
\* Properties of the step counts of main (SpecMain)

\* once completed_steps has reached max_train_steps no optimizer step and no
\* scheduler step is taken
C24_NoStepAfterMax ==
    completed_steps >= max_train_steps =>
        m_opt_steps' = m_opt_steps /\ sched_steps' = sched_steps

\* C24: in the training loop of main completed_steps never exceeds
\* args.max_train_steps: once it has reached max_train_steps no further
\* optimizer step or scheduler step is executed, in the current epoch or in
\* any later epoch of the run.
C24_StepsBoundedByMax ==
    [](completed_steps <= max_train_steps) /\ [][C24_NoStepAfterMax]_vars

\* the inner loop of the epoch has ended after a pass over the whole
\* training dataloader
FullPass ==
    m_pc = "eval" /\ ActiveLen = len_dl /\ step >= len_dl - 1

\* C25: the number of optimizer steps main executes in one full pass over the
\* training dataloader equals num_update_steps_per_epoch, that is
\* ceil(len(train_dataloader) / gradient_accumulation_steps), the figure
\* from which max_train_steps, the number of epochs and the scheduler's
\* total step count are derived.
C25_StepsPerEpoch ==
    FullPass => epoch_steps = NumUpdateStepsPerEpoch(len_dl, m_gas)

---------------------------------------------------------------------------
\* Properties of check_and_fix_json_files (SpecJson)

\* a file the claim says is repaired: a .json file without the broken_
\* prefix whose content fails with 'Extra data' and has more } than {
Repairable(file) ==
    /\ fs0[file] # Absent /\ Eligible(file)
    /\ JsonLoad(fs0[file]) = "extra_data"
    /\ Count(fs0[file], "}") > Count(fs0[file], "{")

\* C26: with fix enabled, a .json file not prefixed broken_ that fails to
\* parse with 'Extra data' and has more } than { is copied unchanged to
\* broken_<name> and rewritten so that its braces are balanced and it parses
\* as JSON; with fix disabled no file is created or modified; files that
\* parse and files prefixed broken_ are never touched.
C26_FixBalancesBraces ==
    j_pc = "done" =>
        /\ fix => \A file \in Names : Repairable(file) =>
               /\ fs[BackupPath(file)] = fs0[file]
               /\ Count(fs[file], "}") = Count(fs[file], "{")
               /\ JsonLoad(fs[file]) = "ok"
        /\ ~fix => fs = fs0
        /\ \A file \in Names :
               (fs0[file] # Absent
                /\ (file[1] = "broken_" \/ JsonLoad(fs0[file]) = "ok")) =>
                   fs[file] = fs0[file]

====
